---- MODULE Spec2Model ----
(***************************************************************************)
(* A model of rmtree: the reconstruction of the reMarkable document tree   *)
(* from the flat UUID-keyed store, the per-document export, the batch      *)
(* driver and the store validator.                                         *)
(*                                                                         *)
(* The repository holds three generations of the tree/export code:         *)
(*   - src/File.py + src/main.py         (suffix ...Old below)              *)
(*   - rmtree/file.py + rmtree/main.py   (suffix ...File / ...Main below)   *)
(*   - rmtree/struct/*.py + rmtree/debug.py   (suffix ...Struct below)      *)
(* Each is modelled from its own source.                                   *)
(***************************************************************************)
EXTENDS Integers, Sequences, FiniteSets, TLC

VARIABLES
    store,      \* the on-disk store: UUID -> the artifacts and records of that UUID
    pc,         \* control location of the entry point being run
    ent,        \* the UUID the current call is about ("" when none)
    pathStruct, \* what struct File.get_path returned for ent
    pathFile,   \* what rmtree/file.py File.get_path returned for ent
    exportRes,  \* what Notebook.export did for ent
    files,      \* main: the UUID -> File map built by list_files
    exported,   \* main: the UUIDs export was called on, in call order
    validation, \* debug.test_assertion: its return value, once it has run
    blobData,   \* the first bytes of the page blob whose version is detected
    detected,   \* what the version detection of each generation found for blobData
    frame,      \* the frame of a rendered page and the size of its background
    placement   \* the output page allocated for frame and the two offsets

\* the variables of the per-page computations
pageVars == <<blobData, detected, frame, placement>>

vars == <<store, pc, ent, pathStruct, pathFile, exportRes, files, exported, validation,
          blobData, detected, frame, placement>>

----------------------------------------------------------------------------
(* Bounds of the model. *)

\* number of UUIDs of the store the path walk is checked on
NumUuids == 3
\* a walk that made this many lookups is reported as looping (never cut short
\* on an acyclic store, whose walks make fewer than NumUuids lookups)
MaxLookups == 4
\* page descriptors per content record
MaxPages == 2
\* pages of a background pdf
MaxBgPages == 2

----------------------------------------------------------------------------
(* Values. *)

UuidSeq == <<"u1", "u2", "u3", "u4", "u5", "u6">>
UUIDs == {UuidSeq[i] : i \in 1..NumUuids}
\* a well-formed UUID that names no entry of the store
MissingUuid == "u9"
NoneVal == "None"

\* FileType, content.py 13-20 / file.py 39-46
DOCUMENT == "DocumentType"
FOLDER == "CollectionType"
UnknownType == "OtherType"

\* the per-UUID artifacts a store can hold: "<uuid>.<ext>", and "folder" for "<uuid>/"
Artifacts == {"folder", "content", "local", "metadata", "pagedata", "tombstone",
              "dirty", "pdf", "thumbnails", "highlights", "textconversion", "other"}

MetaKeys == {"type", "visibleName", "parent"}
ContentKeys == {"formatVersion", "pageCount", "pages", "cPages", "cPages.pages"}

\* the state of a page blob "<uuid>/<page>.rm": absent, or present with a header
BlobStates == {"none", "V6", "V5", "V3", "Unknown"}

\* one single token stands for the fixed "_trash" path segment
TRASH == "_trash"

\* visibleName values: sequences of characters
VisibleNames == { <<"a">>, <<"b", "*">>, <<"/", "c", ":">> }

----------------------------------------------------------------------------
(* Strings and paths. *)

RECURSIVE FilterSeq(_, _)
FilterSeq(s, keep) ==
    IF s = <<>> THEN <<>>
    ELSE (IF Head(s) \in keep THEN <<Head(s)>> ELSE <<>>) \o FilterSeq(Tail(s), keep)

RECURSIVE RemoveChars(_, _)
RemoveChars(s, drop) ==
    IF s = <<>> THEN <<>>
    ELSE (IF Head(s) \in drop THEN <<>> ELSE <<Head(s)>>) \o RemoveChars(Tail(s), drop)

InvalidChars == {"/", ":", "*", "?", "\"", "<", ">", "|"}

\* struct/file.py 22-25
replace_invalid_char(string) == RemoveChars(string, InvalidChars)

\* the characters the regex [^a-zA-Z0-9_\-+*[\] ] of file.py 64 keeps,
\* among the characters of the model
RegexKept == {"a", "b", "c", "d", "_", "-", "+", "*", "[", "]", " "}

\* file.py 64: re.sub(r"[^a-zA-Z0-9_\-+*[\] ]", "", visibleName)
SanitizeFile(string) == FilterSeq(string, RegexKept)

\* posixpath.join(a, b) as used by os.path.join
Join(a, b) ==
    IF b # <<>> /\ Head(b) = "/" THEN b
    ELSE IF a = <<>> \/ a[Len(a)] = "/" THEN a \o b
    ELSE a \o <<"/">> \o b

\* the segments of a path: the maximal runs of characters between "/"
RECURSIVE SplitPath(_, _)
SplitPath(p, cur) ==
    IF p = <<>> THEN (IF cur = <<>> THEN <<>> ELSE <<cur>>)
    ELSE IF Head(p) = "/"
         THEN (IF cur = <<>> THEN <<>> ELSE <<cur>>) \o SplitPath(Tail(p), <<>>)
         ELSE SplitPath(Tail(p), Append(cur, Head(p)))

Segments(p) == SplitPath(p, <<>>)

IsAbsolute(p) == p # <<>> /\ Head(p) = "/"

----------------------------------------------------------------------------
(* The store.  An entry of the store is everything the store holds for one   *)
(* UUID: which artifacts exist, and what the metadata record, the content    *)
(* record, the pages folder and the background pdf hold.                     *)

\* Page.bg_pdf_page_idx = None, page.py 46; NotebookPage.pdf_page_idx = None, file.py 115
NoRedir == -1
\* "no background page for this slot" (background_page is None)
NoBg == -1

\* a page descriptor of the content record, with the state of its blob
Descriptor(deleted, blob, redir) == [deleted |-> deleted, blob |-> blob, redir |-> redir]

Entry(fs, mkeys, type, name, parent, ckeys, version, count, pages, npdf, stray) ==
    [files |-> fs, metaKeys |-> mkeys, type |-> type, visibleName |-> name,
     parent |-> parent, contentKeys |-> ckeys, formatVersion |-> version,
     pageCount |-> count, pages |-> pages, pdfPages |-> npdf, stray |-> stray]

\* os.path.exists(src/<uuid>.<ext>), and os.path.exists(src/<uuid>) for "folder"
exists(st, u, ext) == ext \in st[u].files

\* the key of the content record that holds the page list under schema `version`
PagesKeys(version) == IF version = 2 THEN {"cPages", "cPages.pages"} ELSE {"pages"}

\* FileType.valid_type, content.py 18-20, file.py 44-46
valid_type(t) == t \in {DOCUMENT, FOLDER}

----------------------------------------------------------------------------
(* rmtree/file.py and rmtree/main.py: the entities and the tree scan. *)

Raised(exc) == [cls |-> "Raised", exc |-> exc]
NoneEntity == [cls |-> "None"]

FileEntity(cls, u, name, inTrash, parent, version, pages) ==
    [cls |-> cls, uid |-> u, name |-> name, in_trash |-> inTrash, parent |-> parent,
     content_version |-> version, pages |-> pages]

\* File.__init__, file.py 54-67: the fields computed from the metadata record
FileInitName(e) == SanitizeFile(e.visibleName)
FileInitInTrash(e) == e.parent = "trash"
FileInitParent(e) == IF e.parent # "" /\ ~FileInitInTrash(e) THEN e.parent ELSE NoneVal

\* NotebookPage.__init__, file.py 106-132: EMPTY ("none") when the blob is absent,
\* the detected version otherwise; pdf_page_idx only under schema 2
NotebookPage(version, d) ==
    [version |-> d.blob, pdf_page_idx |-> IF version = 1 THEN NoRedir ELSE d.redir]

RECURSIVE KeptPages(_, _)
KeptPages(version, ds) ==
    IF ds = <<>> THEN <<>>
    ELSE (IF Head(ds).deleted THEN <<>> ELSE <<NotebookPage(version, Head(ds))>>)
         \o KeptPages(version, Tail(ds))

\* Notebook.__init__, file.py 186-206
NotebookInit(st, u) ==
    LET e == st[u] IN
    IF ~(MetaKeys \subseteq e.metaKeys) THEN Raised("KeyError")
    ELSE IF "formatVersion" \notin e.contentKeys THEN Raised("KeyError")
    ELSE IF e.formatVersion \notin {1, 2} THEN Raised("AssertionError")
    ELSE IF ~(PagesKeys(e.formatVersion) \subseteq e.contentKeys) THEN Raised("KeyError")
    ELSE IF \E i \in 1..Len(e.pages) :
                \/ ~e.pages[i].deleted /\ e.pages[i].blob \notin {"none", "V6"}
                \/ e.pages[i].deleted /\ e.pages[i].blob # "none"
         THEN Raised("AssertionError")
    ELSE IF "pageCount" \notin e.contentKeys THEN Raised("KeyError")
    ELSE IF e.pageCount # Len(KeptPages(e.formatVersion, e.pages)) THEN Raised("AssertionError")
    ELSE FileEntity("Notebook", u, FileInitName(e), FileInitInTrash(e), FileInitParent(e),
                    e.formatVersion, KeptPages(e.formatVersion, e.pages))

\* Folder.__init__, file.py 97-98
FolderInit(st, u) ==
    LET e == st[u] IN
    IF ~(MetaKeys \subseteq e.metaKeys) THEN Raised("KeyError")
    ELSE FileEntity("Folder", u, FileInitName(e), FileInitInTrash(e), FileInitParent(e),
                    0, <<>>)

\* the artifacts get_file_by_id probes, main.py 23-32
available_files == {"folder", "content", "local", "metadata", "pagedata", "tombstone",
                    "dirty", "pdf"}

\* get_file_by_id, main.py 15-55
get_file_by_id(st, u) ==
    LET avail == st[u].files \cap available_files IN
    IF "tombstone" \in avail \/ "dirty" \in avail
    THEN (IF avail \ {"tombstone", "dirty"} # {} THEN Raised("AssertionError")
          ELSE NoneEntity)
    ELSE IF ~("metadata" \in avail /\ "content" \in avail) THEN Raised("AssertionError")
    ELSE IF "type" \notin st[u].metaKeys THEN Raised("KeyError")
    ELSE IF ~valid_type(st[u].type) THEN Raised("AssertionError")
    ELSE IF st[u].type = FOLDER
         THEN (IF avail \ {"metadata", "content"} # {} THEN Raised("AssertionError")
               ELSE FolderInit(st, u))
    ELSE NotebookInit(st, u)

\* list_files, main.py 58-81: one get_file_by_id per UUID of the listing; an
\* exception of any of them leaves list_files
list_files_main(st) ==
    LET m == [u \in DOMAIN st |-> get_file_by_id(st, u)] IN
    IF \E u \in DOMAIN st : m[u].cls = "Raised"
    THEN [status |-> "raised", map |-> << >>]
    ELSE [status |-> "ok", map |-> m]

----------------------------------------------------------------------------
(* get_path.  A result is [status, path, lookups]: status "ok" with the path *)
(* returned, "KeyError" / "AttributeError" for the exception that left the   *)
(* walk, "looping" for a walk that reached MaxLookups lookups of the map.    *)

PathResult(status, path, n) == [status |-> status, path |-> path, lookups |-> n]
NoResult == [status |-> "idle"]

\* File.get_path, file.py 69-83, from the first files[...] lookup on; f is
\* the entity just looked up, n the lookups made so far
RECURSIVE FileLoop(_, _, _, _)
FileLoop(fmap, f, path, n) ==
    IF f.cls = "None" THEN PathResult("AttributeError", path, n)
    ELSE LET p2 == Join(f.name, path) IN
         IF f.parent = NoneVal THEN PathResult("ok", p2, n)
         ELSE IF n >= MaxLookups THEN PathResult("looping", p2, n)
         ELSE IF f.parent \notin DOMAIN fmap THEN PathResult("KeyError", p2, n)
         ELSE FileLoop(fmap, fmap[f.parent], p2, n + 1)

\* File.get_path, file.py 69-83
get_path_file(fmap, self) ==
    LET r == IF self.parent = NoneVal THEN PathResult("ok", <<>>, 0)
             ELSE IF self.parent \notin DOMAIN fmap THEN PathResult("KeyError", <<>>, 0)
             ELSE FileLoop(fmap, fmap[self.parent], <<>>, 1)
    IN  IF r.status = "ok" /\ self.in_trash
        THEN [r EXCEPT !.path = Join(<<TRASH>>, r.path)]
        ELSE r

\* File.get_fullpath, file.py 85-86
get_fullpath_file(fmap, self) ==
    LET r == get_path_file(fmap, self) IN
    IF r.status = "ok" THEN [r EXCEPT !.path = Join(r.path, self.name)] ELSE r

----------------------------------------------------------------------------
(* rmtree/struct: the entities, list_files and get_path. *)

StructEntity(cls, u, e) ==
    [cls |-> cls, uuid |-> u, name |-> e.visibleName, parent |-> e.parent,
     keys |-> e.metaKeys]

\* File.from_metadata, struct/file.py 29-35, with Content.from_file, content.py 30-40:
\* a Notebook when the type is DOCUMENT, a Folder for every other type
from_metadata(st, u) ==
    IF "type" \notin st[u].metaKeys THEN Raised("KeyError")
    ELSE IF st[u].type = DOCUMENT THEN StructEntity("Notebook", u, st[u])
    ELSE StructEntity("Folder", u, st[u])

\* list_files, struct/file.py 156-171
list_files_struct(st) ==
    LET keys == {u \in DOMAIN st : exists(st, u, "metadata") /\ exists(st, u, "content")}
        m == [u \in keys |-> from_metadata(st, u)]
    IN  IF \E u \in keys : m[u].cls = "Raised"
        THEN [status |-> "raised", map |-> << >>]
        ELSE [status |-> "ok", map |-> m]

\* File.get_path, struct/file.py 50-62, the while loop from `file` on
RECURSIVE StructWalk(_, _, _, _)
StructWalk(fmap, file, p, n) ==
    IF "parent" \notin file.keys THEN PathResult("KeyError", p, n)
    ELSE IF file.parent \in {"trash", ""}
    THEN PathResult("ok", IF file.parent = "trash" THEN Join(<<TRASH>>, p) ELSE p, n)
    ELSE IF n >= MaxLookups THEN PathResult("looping", p, n)
    ELSE IF file.parent \notin DOMAIN fmap THEN PathResult("KeyError", p, n)
    ELSE LET f == fmap[file.parent] IN
         IF "visibleName" \notin f.keys THEN PathResult("KeyError", p, n + 1)
         ELSE StructWalk(fmap, f, Join(f.name, p), n + 1)

\* a walk that stops at the root only: "trash" is looked up like a UUID
RECURSIVE StructWalkRootOnly(_, _, _, _)
StructWalkRootOnly(fmap, file, p, n) ==
    IF file.parent = "" THEN PathResult("ok", p, n)
    ELSE IF n >= MaxLookups THEN PathResult("looping", p, n)
    ELSE IF file.parent \notin DOMAIN fmap THEN PathResult("KeyError", p, n)
    ELSE StructWalkRootOnly(fmap, fmap[file.parent], Join(fmap[file.parent].name, p), n + 1)

\* get_path with that walk
get_path_struct_rootonly(fmap, self) == StructWalkRootOnly(fmap, self, <<>>, 0)

\* File.get_path, struct/file.py 50-62
get_path_struct(fmap, self) == StructWalk(fmap, self, <<>>, 0)

\* pathlib.Path(p).parts of the path get_path returns, struct/file.py 62
PathParts(p) == (IF IsAbsolute(p) THEN << <<"/">> >> ELSE <<>>) \o Segments(p)

----------------------------------------------------------------------------
(* Notebook.export.  The output is a sequence of pages; a page is            *)
(*   [kind "blank"]: the page add_blank_page allocated for slot `slot`, with  *)
(*                   the layers merged onto it so far, in merge order;        *)
(*   [kind "bg"]:    background page `bg` added as it is (add_page);          *)
(*   [kind "svg"]:   the rendered page of slot `slot` appended as it is.      *)
(* The per-page conversion is done by external libraries: how it ends for    *)
(* the Present page of a slot is an input, conv[slot].                       *)

OutPage(kind, slot, bg, layers) == [kind |-> kind, slot |-> slot, bg |-> bg, layers |-> layers]
Event(level, slot, what) == [level |-> level, slot |-> slot, what |-> what]

\* how the conversion of one Present page ends: it succeeds, or an exception
\* leaves page.export()/svg2pdf ("fail_export"), the merge of the background
\* ("fail_merge_bg") or the merge of the rendered page ("fail_merge_svg")
Outcomes == {"ok", "fail_export", "fail_merge_bg", "fail_merge_svg"}

NoFile == [how |-> "none", pages |-> <<>>]
\* shutil.copyfile of a background of n pages
CopyOf(n) == [how |-> "copy", pages |-> [j \in 1..n |-> OutPage("bg", 0, j - 1, <<>>)]]
Written(out) == [how |-> "write", pages |-> out]

ExportResult(impl, status, exc, file, log, slots) ==
    [impl |-> impl, status |-> status, exc |-> exc, file |-> file, log |-> log,
     slots |-> slots]

\* the accumulated state of the page loop
Acc(out, log, slots, exc) == [out |-> out, log |-> log, slots |-> slots, exc |-> exc]

\* the try block with the two merges exchanged: the rendered page first
CompositeContentFirst(acc, slot, bg, oc) ==
    IF oc = "fail_export"
    THEN [acc EXCEPT !.log = Append(@, Event("warning", slot, oc)),
                     !.slots = Append(@, slot)]
    ELSE LET layers ==
                 IF bg # NoBg
                 THEN (IF oc = "fail_merge_svg" THEN <<>>
                       ELSE IF oc = "fail_merge_bg" THEN <<"svg">>
                       ELSE <<"svg", "bg">>)
                 ELSE (IF oc = "fail_merge_svg" THEN <<>> ELSE <<"svg">>)
             failed == \/ oc = "fail_merge_svg"
                       \/ oc = "fail_merge_bg" /\ bg # NoBg
         IN  [acc EXCEPT !.out = Append(@, OutPage("blank", slot, bg, layers)),
                         !.log = IF failed THEN Append(@, Event("warning", slot, oc)) ELSE @,
                         !.slots = Append(@, slot)]

\* the try block of a Present page, struct/file.py 102-130 and file.py 229-261:
\* page.export(), add_blank_page, merge of the background when there is one,
\* merge of the rendered page; an exception ends the block and is logged
Composite(acc, slot, bg, oc) ==
    IF oc = "fail_export"
    THEN [acc EXCEPT !.log = Append(@, Event("warning", slot, oc)),
                     !.slots = Append(@, slot)]
    ELSE LET layers ==
                 IF bg # NoBg
                 THEN (IF oc = "fail_merge_bg" THEN <<>>
                       ELSE IF oc = "fail_merge_svg" THEN <<"bg">>
                       ELSE <<"bg", "svg">>)
                 ELSE (IF oc = "fail_merge_svg" THEN <<>> ELSE <<"svg">>)
             failed == \/ oc = "fail_merge_svg"
                       \/ oc = "fail_merge_bg" /\ bg # NoBg
         IN  [acc EXCEPT !.out = Append(@, OutPage("blank", slot, bg, layers)),
                         !.log = IF failed THEN Append(@, Event("warning", slot, oc)) ELSE @,
                         !.slots = Append(@, slot)]

\* the end of export, struct/file.py 134-138 and file.py 265-269, 285-289
Finish(impl, acc) ==
    IF acc.exc # "" THEN ExportResult(impl, "raised", acc.exc, NoFile, acc.log, acc.slots)
    ELSE IF Len(acc.out) > 0
    THEN ExportResult(impl, "ok", "", Written(acc.out), acc.log, acc.slots)
    ELSE ExportResult(impl, "ok", "", NoFile, Append(acc.log, Event("fatal", 0, "empty")),
                      acc.slots)

(* rmtree/file.py *)

\* file.py 225-226: the background page of each page, or the exception of the
\* list comprehension
ReorderedBackground(nb, npdf) ==
    IF nb.content_version = 1 THEN [j \in 1..npdf |-> j - 1]
    ELSE [k \in 1..Len(nb.pages) |-> nb.pages[k].pdf_page_idx]

ReorderedRaises(nb, npdf) ==
    /\ nb.content_version # 1
    /\ \E k \in 1..Len(nb.pages) :
          nb.pages[k].pdf_page_idx # NoRedir /\ nb.pages[k].pdf_page_idx >= npdf

Min(a, b) == IF a < b THEN a ELSE b
Max(a, b) == IF a > b THEN a ELSE b

\* file.py 227-263: the loop over zip(self.pages, reordered_background), from
\* pair k on; add_page(None), for an Empty page without background page, raises
RECURSIVE BgLoopFile(_, _, _, _, _)
BgLoopFile(nb, bgs, conv, k, acc) ==
    IF k > Min(Len(nb.pages), Len(bgs)) \/ acc.exc # "" THEN acc
    ELSE IF nb.pages[k].version # "none"
    THEN BgLoopFile(nb, bgs, conv, k + 1, Composite(acc, k, bgs[k], conv[k]))
    ELSE IF bgs[k] = NoBg
    THEN [acc EXCEPT !.exc = "InvalidPage", !.slots = Append(@, k)]
    ELSE BgLoopFile(nb, bgs, conv, k + 1,
                    [acc EXCEPT !.out = Append(@, OutPage("bg", k, bgs[k], <<>>)),
                                !.slots = Append(@, k)])

\* file.py 272-283: the loop without background, from page k on
RECURSIVE NoBgLoopFile(_, _, _, _)
NoBgLoopFile(nb, conv, k, acc) ==
    IF k > Len(nb.pages) THEN acc
    ELSE IF nb.pages[k].version # "none"
    THEN NoBgLoopFile(nb, conv, k + 1,
            IF conv[k] = "ok"
            THEN [acc EXCEPT !.out = Append(@, OutPage("svg", k, NoBg, <<"svg">>)),
                             !.slots = Append(@, k)]
            ELSE [acc EXCEPT !.log = Append(@, Event("warning", k, conv[k])),
                             !.slots = Append(@, k)])
    ELSE NoBgLoopFile(nb, conv, k + 1,
            [acc EXCEPT !.log = Append(@, Event("info", k, "empty")),
                        !.slots = Append(@, k)])

\* file.py 216: all([page == PageType.EMPTY for page in self.pages]); a
\* NotebookPage never equals the integer PageType.EMPTY
AllPagesEmptyFile(nb) == \A k \in 1..Len(nb.pages) : FALSE

\* Notebook.export, file.py 208-289
export_file(st, fmap, nb, conv) ==
    LET pr == get_path_file(fmap, nb)
        start == Acc(<<>>, <<>>, <<>>, "")
    IN  IF pr.status # "ok" THEN ExportResult("file", "raised", pr.status, NoFile, <<>>, <<>>)
        ELSE IF exists(st, nb.uid, "pdf")
        THEN (IF AllPagesEmptyFile(nb)
              THEN ExportResult("file", "ok", "", CopyOf(st[nb.uid].pdfPages),
                                <<Event("debug", 0, "pdf")>>, <<>>)
              ELSE IF ReorderedRaises(nb, st[nb.uid].pdfPages)
              THEN ExportResult("file", "raised", "IndexError", NoFile, <<>>, <<>>)
              ELSE Finish("file", BgLoopFile(nb, ReorderedBackground(nb, st[nb.uid].pdfPages),
                                             conv, 1, start)))
        ELSE Finish("file", NoBgLoopFile(nb, conv, 1, start))

(* rmtree/struct *)

\* Page.from_file, page.py 51-55: PageRM when the blob exists, PageEmpty otherwise
IsPageRM(d) == d.blob # "none"

\* ContentFile.get_pages, content.py 84-90: the descriptors not marked deleted
RECURSIVE get_pages(_)
get_pages(ds) ==
    IF ds = <<>> THEN <<>>
    ELSE (IF Head(ds).deleted THEN <<>> ELSE <<Head(ds)>>) \o get_pages(Tail(ds))

\* ContentFile.get_pages_count, content.py 61-62
get_pages_count(e) == Len(e.pages)

\* ContentFile.iterate_pages, content.py 64-82, and the loop of Notebook.export
\* over it, struct/file.py 100-132, from index i (0-based) on
RECURSIVE LoopStruct(_, _, _, _, _)
LoopStruct(e, hasPdf, conv, i, acc) ==
    LET n == Max(get_pages_count(e), IF hasPdf THEN e.pdfPages ELSE 0)
        slot == i + 1
    IN  IF i >= n \/ acc.exc # "" THEN acc
        ELSE IF e.formatVersion = 1
        THEN (IF i < Len(e.pages)
              THEN [acc EXCEPT !.exc = "TypeError", !.slots = Append(@, slot)]
              ELSE LoopStruct(e, hasPdf, conv, i + 1,
                      IF hasPdf /\ i < e.pdfPages
                      THEN [acc EXCEPT !.out = Append(@, OutPage("bg", slot, i, <<>>)),
                                       !.slots = Append(@, slot)]
                      ELSE [acc EXCEPT !.slots = Append(@, slot)]))
        ELSE IF i < Len(e.pages)
        THEN LET d == e.pages[slot]
                 redirects == hasPdf /\ d.redir # NoRedir
             IN  IF redirects /\ d.redir >= e.pdfPages
                 THEN [acc EXCEPT !.exc = "IndexError", !.slots = Append(@, slot)]
                 ELSE LET bg == IF redirects THEN d.redir ELSE NoBg IN
                      LoopStruct(e, hasPdf, conv, i + 1,
                         IF IsPageRM(d) THEN Composite(acc, slot, bg, conv[slot])
                         ELSE IF bg # NoBg
                         THEN [acc EXCEPT !.out = Append(@, OutPage("bg", slot, bg, <<>>)),
                                          !.slots = Append(@, slot)]
                         ELSE [acc EXCEPT !.slots = Append(@, slot)])
        ELSE LoopStruct(e, hasPdf, conv, i + 1, [acc EXCEPT !.slots = Append(@, slot)])

\* struct/file.py 94: all([isinstance(page, PageEmpty) for page in get_pages()])
AllPagesEmptyStruct(e) ==
    \A k \in 1..Len(get_pages(e.pages)) : ~IsPageRM(get_pages(e.pages)[k])

\* Notebook.export, struct/file.py 86-138
export_struct(st, u, conv) ==
    LET e == st[u]
        start == Acc(<<>>, <<>>, <<>>, "")
    IN  IF ~(PagesKeys(e.formatVersion) \subseteq e.contentKeys)
        THEN ExportResult("struct", "raised", "KeyError", NoFile, <<>>, <<>>)
        ELSE IF AllPagesEmptyStruct(e)
        THEN (IF exists(st, u, "pdf")
              THEN ExportResult("struct", "ok", "", CopyOf(e.pdfPages),
                                <<Event("debug", 0, "pdf")>>, <<>>)
              ELSE ExportResult("struct", "raised", "FileNotFoundError", NoFile,
                                <<Event("debug", 0, "pdf")>>, <<>>))
        \* content.py 77: every formatVersion but 1 reads raw["cPages"]["pages"]
        ELSE IF e.formatVersion # 1 /\ ~({"cPages", "cPages.pages"} \subseteq e.contentKeys)
        THEN ExportResult("struct", "raised", "KeyError", NoFile, <<>>, <<>>)
        ELSE Finish("struct", LoopStruct(e, exists(st, u, "pdf"), conv, 0, start))

----------------------------------------------------------------------------
(* Entry points with no program state of their own leave these as they are. *)

Idle == [status |-> "idle"]

----------------------------------------------------------------------------
(* SpecPath: get_path of both generations on the maps list_files builds from *)
(* a store of NumUuids entities.                                             *)

ParentRefs == UUIDs \cup {"", "trash", MissingUuid}

\* an entity with its two records and nothing else: a Folder
PlainFolder(name, parent) ==
    Entry({"metadata", "content"}, MetaKeys, FOLDER, name, parent, {}, 0, 0, <<>>, 0, FALSE)

\* the stores of NumUuids folders, any names, any parent references
PathStores ==
    { [u \in UUIDs |-> PlainFolder(nm[u], par[u])] :
        nm \in [UUIDs -> VisibleNames], par \in [UUIDs -> ParentRefs] }

InitPath ==
    /\ store \in PathStores
    /\ pc = "path"
    /\ ent = ""
    /\ pathStruct = NoResult
    /\ pathFile = NoResult
    /\ exportRes = Idle
    /\ files = Idle
    /\ exported = <<>>
    /\ validation = Idle
    /\ blobData = <<>>
    /\ detected = Idle
    /\ frame = Idle
    /\ placement = Idle

\* one call of get_path of each generation on entity u, each on the map its
\* own list_files built
PathCall(u) ==
    LET ms == list_files_struct(store)
        mf == list_files_main(store)
    IN  /\ pc = "path"
        /\ ent = ""
        /\ ms.status = "ok"
        /\ mf.status = "ok"
        /\ ent' = u
        /\ pathStruct' = get_path_struct(ms.map, ms.map[u])
        /\ pathFile' = get_path_file(mf.map, mf.map[u])
        /\ UNCHANGED <<store, pc, exportRes, files, exported, validation, pageVars>>

NextPath == \E u \in UUIDs : PathCall(u)

SpecPath == InitPath /\ [][NextPath]_vars

----------------------------------------------------------------------------
(* SpecExport: Notebook.export of both generations on a store holding one    *)
(* Document at the root.                                                     *)

\* the slots a page loop can visit
MaxSlots == IF MaxPages > MaxBgPages THEN MaxPages ELSE MaxBgPages

Convs == [1..MaxSlots -> Outcomes]

\* the page descriptors of schema `version`: a schema 1 descriptor is a bare
\* UUID string (never deleted, no redirect); a schema 2 descriptor may be
\* deleted and may redirect to any background index, in range or not
Descriptors(version) ==
    IF version = 1
    THEN {Descriptor(FALSE, b, NoRedir) : b \in {"none", "V6"}}
    ELSE {Descriptor(del, b, r) : del \in BOOLEAN, b \in {"none", "V6"},
                                  r \in {NoRedir} \cup 0..MaxBgPages}

SeqsUpTo(S, n) == UNION {[1..k -> S] : k \in 0..n}

HasBlob(pages) == \E k \in 1..Len(pages) : pages[k].blob # "none"

\* a Document with a well-formed content record whose pageCount is right
DocEntry(name, parent, version, pages, npdf) ==
    Entry({"metadata", "content"} \cup (IF HasBlob(pages) THEN {"folder"} ELSE {})
                                  \cup (IF npdf > 0 THEN {"pdf"} ELSE {}),
          MetaKeys, DOCUMENT, name, parent,
          {"formatVersion", "pageCount"} \cup PagesKeys(version),
          version, Len(get_pages(pages)), pages, npdf, FALSE)

ExportStores ==
    { [u \in {"u1"} |-> DocEntry(<<"a">>, "", v, ps, n)] :
        v \in {1}, ps \in SeqsUpTo(Descriptors(1), MaxPages), n \in 0..MaxBgPages }
    \cup
    { [u \in {"u1"} |-> DocEntry(<<"a">>, "", v, ps, n)] :
        v \in {2}, ps \in SeqsUpTo(Descriptors(2), MaxPages), n \in 0..MaxBgPages }

InitExport ==
    /\ store \in ExportStores
    /\ pc = "export"
    /\ ent = ""
    /\ pathStruct = NoResult
    /\ pathFile = NoResult
    /\ exportRes = Idle
    /\ files = Idle
    /\ exported = <<>>
    /\ validation = Idle
    /\ blobData = <<>>
    /\ detected = Idle
    /\ frame = Idle
    /\ placement = Idle

\* Notebook.export of rmtree/file.py on the Notebook list_files built
ExportFile(u, conv) ==
    LET mf == list_files_main(store) IN
    /\ pc = "export"
    /\ ent = ""
    /\ mf.status = "ok"
    /\ mf.map[u].cls = "Notebook"
    /\ ent' = u
    /\ exportRes' = export_file(store, mf.map, mf.map[u], conv)
    /\ UNCHANGED <<store, pc, pathStruct, pathFile, files, exported, validation, pageVars>>

\* Notebook.export of rmtree/struct on the Notebook list_files built
ExportStruct(u, conv) ==
    LET ms == list_files_struct(store) IN
    /\ pc = "export"
    /\ ent = ""
    /\ ms.status = "ok"
    /\ u \in DOMAIN ms.map
    /\ ms.map[u].cls = "Notebook"
    /\ ent' = u
    /\ exportRes' = export_struct(store, u, conv)
    /\ UNCHANGED <<store, pc, pathStruct, pathFile, files, exported, validation, pageVars>>

NextExport ==
    \/ \E u \in DOMAIN store, conv \in Convs : ExportFile(u, conv)
    \/ \E u \in DOMAIN store, conv \in Convs : ExportStruct(u, conv)

SpecExport == InitExport /\ [][NextExport]_vars

----------------------------------------------------------------------------
(* rmtree/debug.py: the Validator. *)

\* the per-UUID artifacts the marker test of test_assertion looks for,
\* debug.py 93-95: the known extensions but the markers, and the bare UUID
MarkerExclusive == {"local", "metadata", "content", "pagedata", "pdf", "thumbnails",
                    "highlights", "textconversion", "folder"}

HasMarker(e) == "tombstone" \in e.files \/ "dirty" \in e.files

\* Metadata.test_assertion, metadata.py 31-37: `A and B or C and D`
metadata_test_assertion(e, uuid_list) ==
    IF MetaKeys \subseteq e.metaKeys /\ e.parent \in uuid_list THEN "True"
    ELSE IF "parent" \notin e.metaKeys THEN "KeyError"
    ELSE IF e.parent \in {"", "trash"}
         THEN (IF "type" \notin e.metaKeys THEN "KeyError"
               ELSE IF valid_type(e.type) THEN "True" ELSE "False")
    ELSE "False"

\* ContentFile.test_assertion, content.py 92-97, on any content record: the
\* value returned ("None" when neither branch returns), or the exception of
\* get_version, content.py 58-59
ContentFile_test_assertion(e) ==
    IF "formatVersion" \notin e.contentKeys THEN "KeyError"
    ELSE IF e.formatVersion = 1
    THEN (IF {"formatVersion", "pageCount", "pages"} \subseteq e.contentKeys
          THEN "True" ELSE "False")
    ELSE IF e.formatVersion = 2
    THEN (IF /\ {"formatVersion", "pageCount", "cPages"} \subseteq e.contentKeys
             /\ "cPages.pages" \in e.contentKeys
          THEN "True" ELSE "False")
    ELSE "None"

\* ContentFile.test_assertion as debug.py 119 reads it, for formatVersion 1 or 2
content_test_assertion(e) == ContentFile_test_assertion(e) = "True"

\* debug.py 125-133: some page of get_pages() is a PageRM whose version is not 6
HasIncompatiblePage(e) ==
    \E k \in 1..Len(get_pages(e.pages)) :
        IsPageRM(get_pages(e.pages)[k]) /\ get_pages(e.pages)[k].blob # "V6"

\* debug.py 136-140: the pages folder holds a file that is neither a blob nor
\* a "-metadata.json"
HasUnknownFiles(e) == "folder" \in e.files /\ e.stray

\* one iteration of the loop of test_assertion, debug.py 90-140: the type of
\* the error recorded for the UUID ("none" when nothing is recorded), or the
\* exception that leaves the loop
test_uuid(st, u, uuid_list) ==
    LET e == st[u]
        m == metadata_test_assertion(e, uuid_list)
    IN  IF HasMarker(e) /\ e.files \cap MarkerExclusive # {} THEN "assert"
        ELSE IF ~(exists(st, u, "metadata") /\ exists(st, u, "content")) THEN "assert"
        ELSE IF m = "KeyError" THEN "KeyError"
        ELSE IF m = "False" THEN "assert"
        ELSE IF e.type = DOCUMENT
        THEN (IF "formatVersion" \notin e.contentKeys THEN "KeyError"
              ELSE IF e.formatVersion \notin {1, 2} THEN "compatibility"
              ELSE IF ~content_test_assertion(e) THEN "assert"
              ELSE IF HasUnknownFiles(e) THEN "assert"
              ELSE IF HasIncompatiblePage(e) THEN "compatibility"
              ELSE "none")
        ELSE IF e.type = FOLDER
        THEN (IF HasUnknownFiles(e) THEN "assert" ELSE "none")
        ELSE "AttributeError"

\* test_assertion, debug.py 61-167: the two counts returned, with the errors
\* dictionary they are counted from
test_assertion(st) ==
    LET errors == [u \in DOMAIN st |-> test_uuid(st, u, DOMAIN st)] IN
    IF \E u \in DOMAIN st : errors[u] \in {"KeyError", "AttributeError"}
    THEN [status |-> "raised"]
    ELSE [status |-> "done",
          compatibility |-> Cardinality({u \in DOMAIN st : errors[u] = "compatibility"}),
          assertion |-> Cardinality({u \in DOMAIN st : errors[u] = "assert"}),
          errors |-> errors]

----------------------------------------------------------------------------
(* SpecBatch: main of rmtree/main.py on a store of two entities, and the     *)
(* Validator, which main does not call and the operator may run at any time. *)

BatchUuids == {"u1", "u2"}

GoodDoc == DocEntry(<<"a">>, "", 1, <<Descriptor(FALSE, "V6", NoRedir)>>, 0)
\* a content record of a schema later than 2
NewSchemaDoc == [GoodDoc EXCEPT !.formatVersion = 3]
\* a Document whose parent is not in the store
OrphanDoc == DocEntry(<<"a">>, MissingUuid, 1, <<>>, 0)
\* a schema 2 Document whose page redirects past the end of the background
RedirDoc == DocEntry(<<"a">>, "", 2, <<Descriptor(FALSE, "none", 1)>>, 1)
\* a Document whose pageCount is not the number of its pages
MiscountDoc == [GoodDoc EXCEPT !.pageCount = 2]
\* a Document with a version 5 blob
OldBlobDoc == DocEntry(<<"a">>, "", 1, <<Descriptor(FALSE, "V5", NoRedir)>>, 0)
\* a UUID with nothing but its tombstone
Tombstone == Entry({"tombstone"}, {}, UnknownType, <<>>, "", {}, 0, 0, <<>>, 0, FALSE)

BatchEntries == {GoodDoc, NewSchemaDoc, OrphanDoc, RedirDoc, MiscountDoc, OldBlobDoc,
                 PlainFolder(<<"a">>, ""), Tombstone}

BatchStores == [BatchUuids -> BatchEntries]

InitBatch ==
    /\ store \in BatchStores
    /\ pc = "start"
    /\ ent = ""
    /\ pathStruct = NoResult
    /\ pathFile = NoResult
    /\ exportRes = Idle
    /\ files = Idle
    /\ exported = <<>>
    /\ validation = Idle
    /\ blobData = <<>>
    /\ detected = Idle
    /\ frame = Idle
    /\ placement = Idle

\* the operator runs test_assertion on the store
RunValidator ==
    /\ pc \in {"start", "loop", "done", "raised"}
    /\ validation = Idle
    /\ validation' = test_assertion(store)
    /\ UNCHANGED <<store, pc, ent, pathStruct, pathFile, exportRes, files, exported, pageVars>>

\* main.py 109: files = list_files(args.src); an exception leaves main
MainListFiles ==
    /\ pc = "start"
    /\ files' = list_files_main(store)
    /\ pc' = IF files'.status = "ok" THEN "loop" ELSE "raised"
    /\ UNCHANGED <<store, ent, pathStruct, pathFile, exportRes, exported, validation, pageVars>>

Visited == {exported[k].uid : k \in 1..Len(exported)}

\* main.py 111-115: one iteration of the loop over the dictionary, whose
\* order is the order of the directory listing; an exception of export
\* leaves main
MainIter(u, conv) ==
    /\ pc = "loop"
    /\ u \in DOMAIN files.map \ Visited
    /\ ent' = u
    /\ IF files.map[u].cls = "Notebook"
       THEN LET r == export_file(store, files.map, files.map[u], conv) IN
            /\ exportRes' = r
            /\ exported' = Append(exported, [uid |-> u, status |-> r.status])
            /\ pc' = IF r.status = "raised" THEN "raised" ELSE "loop"
       ELSE /\ exported' = Append(exported, [uid |-> u, status |-> "skipped"])
            /\ UNCHANGED <<exportRes, pc>>
    /\ UNCHANGED <<store, pathStruct, pathFile, files, validation, pageVars>>

\* the loop is over: main returns
MainDone ==
    /\ pc = "loop"
    /\ DOMAIN files.map = Visited
    /\ pc' = "done"
    /\ UNCHANGED <<store, ent, pathStruct, pathFile, exportRes, files, exported, validation, pageVars>>

NextBatch ==
    \/ RunValidator
    \/ MainListFiles
    \/ \E u \in DOMAIN store, conv \in Convs : MainIter(u, conv)
    \/ MainDone

SpecBatch == InitBatch /\ [][NextBatch]_vars

----------------------------------------------------------------------------
(* SpecScan: the same entry points on a store whose first UUID has any       *)
(* non-empty set of artifacts, next to a plain Folder.                       *)

\* a Document with no page; its background, when there is one, has one page
BlankDoc(fs) ==
    [DocEntry(<<"a">>, "", 1, <<>>, IF "pdf" \in fs THEN 1 ELSE 0) EXCEPT !.files = fs]

ScanEntries ==
    { [PlainFolder(<<"a">>, "") EXCEPT !.files = fs] : fs \in SUBSET Artifacts \ {{}} }
    \cup { BlankDoc(fs) : fs \in SUBSET Artifacts \ {{}} }

ScanStores ==
    { [u \in BatchUuids |-> IF u = "u1" THEN e ELSE PlainFolder(<<"a">>, "")] :
        e \in ScanEntries }

InitScan ==
    /\ store \in ScanStores
    /\ pc = "start"
    /\ ent = ""
    /\ pathStruct = NoResult
    /\ pathFile = NoResult
    /\ exportRes = Idle
    /\ files = Idle
    /\ exported = <<>>
    /\ validation = Idle
    /\ blobData = <<>>
    /\ detected = Idle
    /\ frame = Idle
    /\ placement = Idle

SpecScan == InitScan /\ [][NextBatch]_vars

----------------------------------------------------------------------------
(* SpecValidate: the Validator, main and the export of rmtree/struct on a    *)
(* store whose first UUID has a metadata and a content record of any type,   *)
(* parent reference, schema, page list and page count, next to a plain       *)
(* Folder.                                                                   *)

\* the page lists of a content record of schema `version`
ValidatePages(version) ==
    { <<>> } \cup { <<Descriptor(FALSE, b, NoRedir)>> : b \in {"none", "V6", "V5", "Unknown"} }
    \cup (IF version = 2
          THEN { <<Descriptor(TRUE, "none", NoRedir), Descriptor(FALSE, "V6", NoRedir)>> }
          ELSE {})

\* off is the difference between the declared pageCount and the number of
\* descriptors that are not deleted
ValidateEntry(type, parent, version, pages, off, pdf, stray) ==
    Entry({"metadata", "content"}
              \cup (IF HasBlob(pages) \/ stray THEN {"folder"} ELSE {})
              \cup (IF pdf THEN {"pdf"} ELSE {}),
          MetaKeys, type, <<"a">>, parent,
          {"formatVersion", "pageCount"} \cup PagesKeys(version),
          version, Len(get_pages(pages)) + off, pages, IF pdf THEN 1 ELSE 0, stray)

ValidateEntries ==
    UNION { { ValidateEntry(type, parent, version, pages, off, pdf, stray) :
                type \in {DOCUMENT, FOLDER, UnknownType},
                parent \in {"", "trash", "u2", MissingUuid},
                pages \in ValidatePages(version),
                off \in {0, 1}, pdf \in BOOLEAN, stray \in BOOLEAN } :
            version \in {1, 2, 3} }

ValidateStores ==
    { [u \in BatchUuids |-> IF u = "u1" THEN e ELSE PlainFolder(<<"a">>, "")] :
        e \in ValidateEntries }

InitValidate ==
    /\ store \in ValidateStores
    /\ pc = "start"
    /\ ent = ""
    /\ pathStruct = NoResult
    /\ pathFile = NoResult
    /\ exportRes = Idle
    /\ files = Idle
    /\ exported = <<>>
    /\ validation = Idle
    /\ blobData = <<>>
    /\ detected = Idle
    /\ frame = Idle
    /\ placement = Idle

\* list_files and Notebook.export of rmtree/struct on Document u
StructExport(u, conv) ==
    LET ms == list_files_struct(store) IN
    /\ pc = "start"
    /\ exportRes = Idle
    /\ ms.status = "ok"
    /\ u \in DOMAIN ms.map
    /\ ms.map[u].cls = "Notebook"
    /\ ent' = u
    /\ exportRes' = export_struct(store, u, conv)
    /\ UNCHANGED <<store, pc, pathStruct, pathFile, files, exported, validation, pageVars>>

NextValidate ==
    \/ RunValidator
    \/ MainListFiles
    \/ \E u \in DOMAIN store, conv \in Convs : MainIter(u, conv)
    \/ MainDone
    \/ \E u \in DOMAIN store, conv \in Convs : StructExport(u, conv)

SpecValidate == InitValidate /\ [][NextValidate]_vars

----------------------------------------------------------------------------
(* rmtree/struct/page.py: the version of a page blob.  The first bytes of a  *)
(* blob are a sequence of tokens: "H" stands for the text of                 *)
(* RM_VERSION_HEADER, "6" "5" "3" for the digit that follows it, "x" for any *)
(* other content.                                                            *)

\* the longest blob prefix the model draws
MaxBlobLen == 3

BlobTokens == {"H", "6", "5", "3", "x"}

\* PageVersion.VALID_VERSIONS, page.py 28, in its order
VALID_VERSIONS == <<"V6", "V5", "V3">>

VersionDigit(v) == CASE v = "V6" -> "6" [] v = "V5" -> "5" [] v = "V3" -> "3"

\* page.py 71: RM_VERSION_HEADER + str(v)
Header(v) == <<"H", VersionDigit(v)>>

\* f.read(n): the first n bytes, or all of them when there are fewer
Read(data, n) == IF Len(data) <= n THEN data ELSE SubSeq(data, 1, n)

\* bytes.startswith
StartsWith(data, h) == Len(h) <= Len(data) /\ \A i \in 1..Len(h) : data[i] = h[i]

\* the loop of __compute_version__, page.py 74-77, from index k of
\* VALID_VERSIONS on; the method returns None when no header matches
RECURSIVE FirstHeader(_, _)
FirstHeader(file_header, k) ==
    IF k > Len(VALID_VERSIONS) THEN "Unknown"
    ELSE IF StartsWith(file_header, Header(VALID_VERSIONS[k])) THEN VALID_VERSIONS[k]
    ELSE FirstHeader(file_header, k + 1)

\* PageRM.__compute_version__, page.py 70-77
compute_version(data) == FirstHeader(Read(data, Len(Header("V6"))), 1)

\* Page.from_file, page.py 51-55, then test_assertion of the class it built,
\* page.py 124-125 and 132-133
PageOf(blob) ==
    IF blob.exists
    THEN [cls |-> "PageRM", version |-> compute_version(blob.bytes),
          passes |-> compute_version(blob.bytes) = "V6"]
    ELSE [cls |-> "PageEmpty", version |-> "none", passes |-> TRUE]

----------------------------------------------------------------------------
(* SpecDetect: the version detection on the first bytes of one page blob,    *)
(* and the Validator and main on the Document that has this one page.        *)

Blobs ==
    { [exists |-> FALSE, bytes |-> <<>>] }
    \cup { [exists |-> TRUE, bytes |-> b] : b \in SeqsUpTo(BlobTokens, MaxBlobLen) }

\* the state of the blob as the store records it
BlobState(blob) == IF blob.exists THEN compute_version(blob.bytes) ELSE "none"

InitDetect ==
    /\ blobData \in Blobs
    /\ \E v \in {1, 2}, stray \in BOOLEAN :
          store = [u \in BatchUuids |->
                     IF u = "u1"
                     THEN ValidateEntry(DOCUMENT, "", v,
                                        <<Descriptor(FALSE, BlobState(blobData), NoRedir)>>,
                                        0, FALSE, stray)
                     ELSE PlainFolder(<<"a">>, "")]
    /\ pc = "start"
    /\ ent = ""
    /\ pathStruct = NoResult
    /\ pathFile = NoResult
    /\ exportRes = Idle
    /\ files = Idle
    /\ exported = <<>>
    /\ validation = Idle
    /\ detected = Idle
    /\ frame = Idle
    /\ placement = Idle

\* Page.from_file on the page of the Document
DetectVersion ==
    /\ pc = "start"
    /\ detected = Idle
    /\ detected' = PageOf(blobData)
    /\ UNCHANGED <<store, pc, ent, pathStruct, pathFile, exportRes, files, exported,
                   validation, blobData, frame, placement>>

NextDetect ==
    \/ DetectVersion
    \/ RunValidator
    \/ MainListFiles
    \/ \E u \in DOMAIN store, conv \in Convs : MainIter(u, conv)
    \/ MainDone

SpecDetect == InitDetect /\ [][NextDetect]_vars

----------------------------------------------------------------------------
(* The placement of a rendered page and its background on the output page,   *)
(* struct/file.py 104-121 and file.py 231-252.  A frame is what page.export  *)
(* returned, (x_shift, y_shift, w_svg, h_svg), with the mediabox of the      *)
(* background page of the slot when there is one.  Lengths are integers and  *)
(* the sizes drawn are even, so that the halves are exact.                   *)

Frame(x, y, w, h, hasBg, wPage, hPage) ==
    [x_shift |-> x, y_shift |-> y, w_svg |-> w, h_svg |-> h,
     hasBg |-> hasBg, wPage |-> wPage, hPage |-> hPage]

\* struct/file.py 106-107: the size of the background, 0 by 0 when there is none
BgWidth(f) == IF f.hasBg THEN f.wPage ELSE 0
BgHeight(f) == IF f.hasBg THEN f.hPage ELSE 0

PlacementResult(width, height, x_svg, y_svg, x_bg, y_bg) ==
    [width |-> width, height |-> height, x_svg |-> x_svg, y_svg |-> y_svg,
     x_bg |-> x_bg, y_bg |-> y_bg]

\* an output page of the size of the rendered page, whatever the background
PlacementSvgSized(f) ==
    LET w_bg == BgWidth(f)
        h_bg == BgHeight(f)
        width == f.w_svg
        height == f.h_svg
    IN  PlacementResult(width, height,
            IF f.w_svg < w_bg
            THEN width \div 2 - f.w_svg \div 2 + (f.w_svg \div 2 + f.x_shift) ELSE 0,
            IF f.h_svg < h_bg THEN height - f.h_svg - f.y_shift ELSE 0,
            IF f.w_svg > w_bg
            THEN width \div 2 - w_bg \div 2 - (f.w_svg \div 2 + f.x_shift) ELSE 0,
            IF f.h_svg > h_bg THEN height - h_bg + f.y_shift ELSE 0)

\* the smaller box centred on both axes, with no use of the frame's shift
PlacementCentred(f) ==
    LET w_bg == BgWidth(f)
        h_bg == BgHeight(f)
        width == Max(f.w_svg, w_bg)
        height == Max(f.h_svg, h_bg)
    IN  PlacementResult(width, height,
            IF f.w_svg < w_bg THEN width \div 2 - f.w_svg \div 2 ELSE 0,
            IF f.h_svg < h_bg THEN height \div 2 - f.h_svg \div 2 ELSE 0,
            IF f.w_svg > w_bg THEN width \div 2 - w_bg \div 2 ELSE 0,
            IF f.h_svg > h_bg THEN height \div 2 - h_bg \div 2 ELSE 0)

\* struct/file.py 106-121, file.py 236-252
Placement(f) ==
    LET w_bg == BgWidth(f)
        h_bg == BgHeight(f)
        width == Max(f.w_svg, w_bg)
        height == Max(f.h_svg, h_bg)
    IN  PlacementResult(width, height,
            IF f.w_svg < w_bg
            THEN width \div 2 - f.w_svg \div 2 + (f.w_svg \div 2 + f.x_shift) ELSE 0,
            IF f.h_svg < h_bg THEN height - f.h_svg - f.y_shift ELSE 0,
            IF f.w_svg > w_bg
            THEN width \div 2 - w_bg \div 2 - (f.w_svg \div 2 + f.x_shift) ELSE 0,
            IF f.h_svg > h_bg THEN height - h_bg + f.y_shift ELSE 0)

----------------------------------------------------------------------------
(* SpecPlace: the placement computed for one frame. *)

Sizes == {80, 100, 150, 200}
XShifts == {-50, -40, 0, 10}
YShifts == {-5, 0, 5}

Frames ==
    { Frame(x, y, w, h, FALSE, 0, 0) : x \in XShifts, y \in YShifts, w \in Sizes, h \in Sizes }
    \cup { Frame(x, y, w, h, TRUE, wp, hp) :
             x \in XShifts, y \in YShifts, w \in Sizes, h \in Sizes,
             wp \in Sizes, hp \in Sizes }

InitPlace ==
    /\ frame \in Frames
    /\ placement = Idle
    /\ store = << >>
    /\ pc = "place"
    /\ ent = ""
    /\ pathStruct = NoResult
    /\ pathFile = NoResult
    /\ exportRes = Idle
    /\ files = Idle
    /\ exported = <<>>
    /\ validation = Idle
    /\ blobData = <<>>
    /\ detected = Idle

\* the lines of the try block that size the output page and place the boxes
Place ==
    /\ pc = "place"
    /\ placement = Idle
    /\ placement' = Placement(frame)
    /\ UNCHANGED <<store, pc, ent, pathStruct, pathFile, exportRes, files, exported,
                   validation, blobData, detected, frame>>

NextPlace == Place

SpecPlace == InitPlace /\ [][NextPlace]_vars

----------------------------------------------------------------------------
(* src/src/File.py: Notebook.export of the first generation.  Its Notebook   *)
(* is built as the one of rmtree/file.py is (File.py 124-143) and get_path   *)
(* is the same walk (File.py 58-72).  A layer "bg_under" is the background   *)
(* merged with over=False.                                                   *)

\* File.py 151-157: the svg of each page, None (0) for an Empty page; a page
\* whose export raised is left out of the list
RECURSIVE SvgsOld(_, _, _)
SvgsOld(nb, conv, k) ==
    IF k > Len(nb.pages) THEN <<>>
    ELSE (IF nb.pages[k].version = "none" THEN <<0>>
          ELSE IF conv[k] = "fail_export" THEN <<>>
          ELSE <<k>>) \o SvgsOld(nb, conv, k + 1)

\* File.py 167-186: the loop over zip(background.pages, svgs), from pair j on;
\* nothing catches the exception of a merge
RECURSIVE BgLoopOld(_, _, _, _, _)
BgLoopOld(svgs, npdf, conv, j, acc) ==
    IF j > Min(npdf, Len(svgs)) \/ acc.exc # "" THEN acc
    ELSE IF svgs[j] # 0
    THEN (IF conv[svgs[j]] = "fail_merge_bg"
          THEN [acc EXCEPT !.exc = "MergeError", !.slots = Append(@, svgs[j])]
          ELSE BgLoopOld(svgs, npdf, conv, j + 1,
                  [acc EXCEPT !.out = Append(@, OutPage("svg", svgs[j], j - 1,
                                                        <<"svg", "bg_under">>)),
                              !.slots = Append(@, svgs[j])]))
    ELSE BgLoopOld(svgs, npdf, conv, j + 1,
            [acc EXCEPT !.out = Append(@, OutPage("bg", j, j - 1, <<>>)),
                        !.slots = Append(@, j)])

\* File.py 191-195: the rendered pages appended one after the other
RECURSIVE NoBgLoopOld(_, _, _)
NoBgLoopOld(svgs, j, acc) ==
    IF j > Len(svgs) THEN acc
    ELSE NoBgLoopOld(svgs, j + 1,
            IF svgs[j] # 0
            THEN [acc EXCEPT !.out = Append(@, OutPage("svg", svgs[j], NoBg, <<"svg">>)),
                             !.slots = Append(@, svgs[j])]
            ELSE acc)

\* File.py 188-189, 196-197: the output is written whatever its page count
FinishOld(acc) ==
    IF acc.exc # "" THEN ExportResult("old", "raised", acc.exc, NoFile, acc.log, acc.slots)
    ELSE ExportResult("old", "ok", "", Written(acc.out), acc.log, acc.slots)

\* Notebook.export, src/src/File.py 145-197
export_old(st, fmap, nb, conv) ==
    LET pr == get_path_file(fmap, nb)
        svgs == SvgsOld(nb, conv, 1)
        start == Acc(<<>>, <<>>, <<>>, "")
    IN  IF pr.status # "ok" THEN ExportResult("old", "raised", pr.status, NoFile, <<>>, <<>>)
        ELSE IF exists(st, nb.uid, "pdf")
        THEN (IF \A j \in 1..Len(svgs) : svgs[j] = 0
              THEN ExportResult("old", "ok", "", CopyOf(st[nb.uid].pdfPages), <<>>, <<>>)
              ELSE FinishOld(BgLoopOld(svgs, st[nb.uid].pdfPages, conv, 1, start)))
        ELSE FinishOld(NoBgLoopOld(svgs, 1, start))

----------------------------------------------------------------------------
(* SpecLayers: Notebook.export of the three generations on the stores of     *)
(* SpecExport.                                                               *)

\* Notebook.export of src/src/File.py on the Notebook of u
ExportOld(u, conv) ==
    LET mf == list_files_main(store) IN
    /\ pc = "export"
    /\ ent = ""
    /\ mf.status = "ok"
    /\ mf.map[u].cls = "Notebook"
    /\ ent' = u
    /\ exportRes' = export_old(store, mf.map, mf.map[u], conv)
    /\ UNCHANGED <<store, pc, pathStruct, pathFile, files, exported, validation, pageVars>>

NextLayers ==
    \/ \E u \in DOMAIN store, conv \in Convs : ExportFile(u, conv)
    \/ \E u \in DOMAIN store, conv \in Convs : ExportStruct(u, conv)
    \/ \E u \in DOMAIN store, conv \in Convs : ExportOld(u, conv)

SpecLayers == InitExport /\ [][NextLayers]_vars

----------------------------------------------------------------------------
(* SpecRecords: the Validator and get_path of rmtree/struct on a store whose *)
(* first UUID has both records, with any parent reference, any type and any  *)
(* set of fields in its content record, next to a UUID that is an entity, a  *)
(* marker or a lone metadata record.                                         *)

\* the sets of fields a content record can have: "pages" of "cPages" is
\* there only when "cPages" is
RecordKeys == {ks \in SUBSET ContentKeys : "cPages.pages" \in ks => "cPages" \in ks}

RecordEntries ==
    { Entry({"metadata", "content"}, MetaKeys, DOCUMENT, <<"a">>, parent, ks, v, 0,
            <<>>, 0, FALSE) :
        parent \in {"", "trash", "u1", "u2", MissingUuid}, ks \in RecordKeys, v \in {1, 2} }
    \cup
    { Entry({"metadata", "content"}, MetaKeys, type, <<"a">>, parent, {}, 0, 0,
            <<>>, 0, FALSE) :
        parent \in {"", "trash", "u1", "u2", MissingUuid}, type \in {FOLDER, UnknownType} }

NeighbourEntries ==
    { PlainFolder(<<"b">>, ""), PlainFolder(<<"b">>, "u1"), Tombstone,
      [Tombstone EXCEPT !.files = {"dirty"}],
      [PlainFolder(<<"b">>, "") EXCEPT !.files = {"metadata"}] }

RecordStores ==
    { [u \in BatchUuids |-> IF u = "u1" THEN e ELSE n] :
        e \in RecordEntries, n \in NeighbourEntries }

InitRecords ==
    /\ store \in RecordStores
    /\ pc = "start"
    /\ ent = ""
    /\ pathStruct = NoResult
    /\ pathFile = NoResult
    /\ exportRes = Idle
    /\ files = Idle
    /\ exported = <<>>
    /\ validation = Idle
    /\ blobData = <<>>
    /\ detected = Idle
    /\ frame = Idle
    /\ placement = Idle

\* list_files of rmtree/struct and get_path of entity u on the map it built
StructPathCall(u) ==
    LET ms == list_files_struct(store) IN
    /\ pc = "start"
    /\ ent = ""
    /\ ms.status = "ok"
    /\ u \in DOMAIN ms.map
    /\ ent' = u
    /\ pathStruct' = get_path_struct(ms.map, ms.map[u])
    /\ UNCHANGED <<store, pc, pathFile, exportRes, files, exported, validation, pageVars>>

NextRecords ==
    \/ RunValidator
    \/ \E u \in DOMAIN store : StructPathCall(u)

SpecRecords == InitRecords /\ [][NextRecords]_vars

----------------------------------------------------------------------------
(* The parent graph of the store, read from the metadata records. *)

\* the entries reached from the set S by one parent link
ParentsOf(S) == {store[v].parent : v \in S} \cap DOMAIN store

RECURSIVE Closure(_, _)
Closure(S, k) == IF k = 0 THEN S ELSE Closure(S \cup ParentsOf(S), k - 1)

\* the ancestors of u: every entry reached from u by one or more parent links
Ancestors(u) == Closure(ParentsOf({u}), Cardinality(DOMAIN store))

Acyclic == \A u \in DOMAIN store : u \notin Ancestors(u)

ParentsResolve ==
    \A u \in DOMAIN store : store[u].parent \in DOMAIN store \cup {"", "trash"}

\* the ancestors of u, topmost first: ordered by their own number of ancestors
RECURSIVE TopFirst(_)
TopFirst(S) ==
    IF S = {} THEN <<>>
    ELSE LET top == CHOOSE v \in S : \A w \in S : Cardinality(Ancestors(v)) <= Cardinality(Ancestors(w))
         IN  <<top>> \o TopFirst(S \ {top})

\* where the walk up from u ends: the parent reference of its topmost ancestor
TopRef(u) ==
    IF Ancestors(u) = {} THEN store[u].parent
    ELSE store[TopFirst(Ancestors(u))[1]].parent

\* C1: on a store whose parent links are acyclic and all resolve, get_path of
\* either generation returns, having looked the map up once per ancestor of
\* the entity (so it went no further than the first parent "" or "trash").
C1_LookupsEqualDepth ==
    (ent # "" /\ Acyclic /\ ParentsResolve) =>
        /\ pathStruct.status = "ok"
        /\ pathStruct.lookups = Cardinality(Ancestors(ent))
        /\ pathFile.status = "ok"
        /\ pathFile.lookups = Cardinality(Ancestors(ent))

\* a walk over two ancestors that ends at the trash sentinel
C1_Witness ==
    /\ ent # "" /\ Acyclic /\ ParentsResolve
    /\ Cardinality(Ancestors(ent)) = 2
    /\ TopRef(ent) = "trash"
    /\ pathStruct.lookups = 2 /\ pathFile.lookups = 2

\* the names both generations leave as they are
CleanName(n) == SanitizeFile(n) = n /\ replace_invalid_char(n) = n

NamesOf(seqOfUuids) == [i \in 1..Len(seqOfUuids) |-> store[seqOfUuids[i]].visibleName]

\* C2, on the stores whose names no sanitizer changes: the path get_path
\* returns is the ancestors' names topmost first, it starts with "_trash"
\* exactly when the walk up ends at the trash sentinel, and both generations
\* return the same path.
C2_RootFirstTrashPrefix ==
    (/\ ent # "" /\ Acyclic /\ ParentsResolve
     /\ \A u \in DOMAIN store : CleanName(store[u].visibleName)) =>
        LET expected == (IF TopRef(ent) = "trash" THEN << <<TRASH>> >> ELSE <<>>)
                        \o NamesOf(TopFirst(Ancestors(ent)))
        IN  /\ PathParts(pathStruct.path) = expected
            /\ Segments(pathFile.path) = expected
            /\ pathStruct.path = pathFile.path

NoInvalidChar(segment) == \A i \in 1..Len(segment) : segment[i] \notin InvalidChars

\* Folder.export, struct/file.py 149-153: the folder name joined to the output path
FolderExportName(e) == e.name

\* Notebook.export, struct/file.py 87: the file name joined to the output path
NotebookExportNameStruct(e) == replace_invalid_char(e.name)

\* C3: no segment of an output path (the ancestors' names get_path returns,
\* the name a Folder is exported under, the name a Document is exported
\* under) holds any of the characters / : * ? " < > |
C3_NoInvalidCharInSegments ==
    (ent # "" /\ pathStruct.status = "ok" /\ pathFile.status = "ok") =>
        LET ms == list_files_struct(store).map
            mf == list_files_main(store).map
            segs == Segments(pathStruct.path) \o Segments(pathFile.path)
                    \o Segments(FolderExportName(ms[ent]))
                    \o Segments(NotebookExportNameStruct(ms[ent]))
                    \o Segments(mf[ent].name)
        IN  \A i \in 1..Len(segs) : segs[i] = <<TRASH>> \/ NoInvalidChar(segs[i])

----------------------------------------------------------------------------
(* The Document an export was called on. *)

\* the pages of the Document: its descriptors not marked deleted
DocPages(u) == get_pages(store[u].pages)

AllEmpty(u) == \A k \in 1..Len(DocPages(u)) : DocPages(u)[k].blob = "none"

HasEvent(level) == \E k \in 1..Len(exportRes.log) : exportRes.log[k].level = level

ExportDone == ent # "" /\ exportRes # Idle

\* C4: a Document with a background file and at least one page, all of them
\* Empty, is exported as a copy of the background file: same pages, same
\* order, none written by the compositing loop.
C4_EmptyPagesCopyBackground ==
    (/\ ExportDone
     /\ exists(store, ent, "pdf")
     /\ Len(DocPages(ent)) >= 1
     /\ AllEmpty(ent)) =>
        /\ exportRes.status = "ok"
        /\ exportRes.file = CopyOf(store[ent].pdfPages)

\* C5: a Document without background file whose pages are all Empty (or that
\* has no page) is exported by writing no file, reporting the empty output,
\* and returning without an exception.
C5_EmptyOutputNotWritten ==
    (/\ ExportDone
     /\ ~exists(store, ent, "pdf")
     /\ AllEmpty(ent)) =>
        /\ exportRes.status = "ok"
        /\ exportRes.file = NoFile
        /\ HasEvent("fatal")

\* C6: under schema 1, with a background of fewer pages than the Document,
\* every Present page whose conversion succeeds is in the output, and those
\* at or beyond the background page count are composited with no background.
C6_PagesBeyondBackgroundEmitted ==
    (/\ ExportDone
     /\ store[ent].formatVersion = 1
     /\ exists(store, ent, "pdf")
     /\ store[ent].pdfPages < Len(DocPages(ent))
     /\ ~HasEvent("warning")) =>
        /\ exportRes.status = "ok"
        /\ \A k \in 1..Len(DocPages(ent)) :
              DocPages(ent)[k].blob # "none" =>
                 \E j \in 1..Len(exportRes.file.pages) :
                    /\ exportRes.file.pages[j].kind = "blank"
                    /\ exportRes.file.pages[j].slot = k
                    /\ k > store[ent].pdfPages => exportRes.file.pages[j].bg = NoBg

\* C7: a Present page whose conversion failed (a warning is logged for its
\* slot) adds no page to the output, and the slots after it are still
\* visited in order.
C7_FailedPageContributesNothing ==
    (ExportDone /\ exportRes.status = "ok") =>
        /\ \A k \in 1..Len(exportRes.log) :
              exportRes.log[k].level = "warning" =>
                 \A j \in 1..Len(exportRes.file.pages) :
                    exportRes.file.pages[j].slot # exportRes.log[k].slot
        /\ \A k \in 1..Len(exportRes.slots) : exportRes.slots[k] = k

----------------------------------------------------------------------------
(* The batch. *)

Terminated == pc \in {"done", "raised"}

ExportCalled(u) ==
    \E k \in 1..Len(exported) : exported[k].uid = u /\ exported[k].status # "skipped"

IsDocument(u) == "metadata" \in store[u].files /\ store[u].type = DOCUMENT

LoadFails(u) == get_file_by_id(store, u).cls = "Raised"

\* C8: a failure while loading or exporting one Document does not keep main
\* from calling export on the other Documents: when main has ended, on a
\* store where nothing but Documents fails to load, export has been called on
\* every Document that loads.
C8_DocumentFailureDoesNotAbortBatch ==
    (Terminated /\ \A u \in DOMAIN store : LoadFails(u) => IsDocument(u))
        => \A d \in DOMAIN store :
              get_file_by_id(store, d).cls = "Notebook" => ExportCalled(d)

\* C9: no export starts unless the Validator has run over the store and has
\* returned zero compatibility errors: whenever export has been called, a
\* validation has completed with a compatibility count of 0.
C9_ExportGatedByValidation ==
    (\E u \in DOMAIN store : ExportCalled(u))
        => validation.status = "done" /\ validation.compatibility = 0

\* C10: for a UUID with a tombstone or dirty marker and any other artifact,
\* the Validator, once it has run, has recorded an assertion error for that
\* UUID, and the tree scan, once it has run, has failed its assertion.
C10_MarkerExclusive ==
    \A u \in DOMAIN store :
        (HasMarker(store[u]) /\ Cardinality(store[u].files) >= 2)
            => /\ validation.status = "done" => validation.errors[u] = "assert"
               /\ files # Idle => files.status = "raised"

----------------------------------------------------------------------------
(* The content record. *)

HasRecords(u) == {"metadata", "content"} \subseteq store[u].files

\* the export of rmtree/struct has run on u
StructExported(u) == exportRes # Idle /\ exportRes.impl = "struct" /\ ent = u

\* C11: a content record of schema 1 or 2 whose number of non-deleted page
\* descriptors differs from the declared pageCount is reported as an assertion
\* error by the Validator and is rejected by the export path: list_files of
\* main raises on it, and the export of rmtree/struct writes and copies
\* nothing for it.
C11_PageCountMismatchRejected ==
    \A u \in DOMAIN store :
        ( /\ HasRecords(u) /\ ~HasMarker(store[u]) /\ store[u].type = DOCUMENT
          /\ store[u].formatVersion \in {1, 2}
          /\ store[u].pageCount # Len(get_pages(store[u].pages)) )
        => /\ validation.status = "done" => validation.errors[u] = "assert"
           /\ files # Idle => files.status = "raised"
           /\ StructExported(u) => exportRes.file = NoFile

----------------------------------------------------------------------------
(* The version of a page. *)

\* v is the first of V6, V5, V3 whose header is a prefix of the bytes
FirstMatching(bytes, v) ==
    \E k \in 1..Len(VALID_VERSIONS) :
        /\ VALID_VERSIONS[k] = v
        /\ StartsWith(bytes, Header(v))
        /\ \A j \in 1..(k - 1) : ~StartsWith(bytes, Header(VALID_VERSIONS[j]))

NoneMatching(bytes) ==
    \A k \in 1..Len(VALID_VERSIONS) : ~StartsWith(bytes, Header(VALID_VERSIONS[k]))

\* C12: the detected version of a Present page is the first of V6, V5, V3
\* whose header is a prefix of the blob, and none of them when no header is;
\* the page passes exactly when the version is V6, an Empty page passes; the
\* Validator, once it has run without raising, has recorded a compatibility
\* error for the Document of a Present page that does not pass.
C12_VersionGate ==
    /\ detected # Idle =>
          IF blobData.exists
          THEN /\ detected.cls = "PageRM"
               /\ \A v \in {"V6", "V5", "V3"} :
                     detected.version = v <=> FirstMatching(blobData.bytes, v)
               /\ detected.version = "Unknown" <=> NoneMatching(blobData.bytes)
               /\ detected.passes <=> detected.version = "V6"
          ELSE detected.cls = "PageEmpty" /\ detected.passes
    /\ validation # Idle =>
          /\ validation.status = "done"
          /\ (blobData.exists /\ ~FirstMatching(blobData.bytes, "V6"))
                => validation.errors["u1"] = "compatibility"

\* the parent reference of u is the root, the trash or a UUID of the store
ParentKnown(u) == store[u].parent \in {"", "trash"} \cup DOMAIN store

\* C13: for a Document (with a parent reference that resolves) whose content
\* record has a formatVersion outside {1, 2}, the Validator, once it has run,
\* has recorded a compatibility error for it, and the export path rejects the
\* record: list_files of main raises, and the export of rmtree/struct raises
\* instead of reading its pages.
C13_UnsupportedSchemaRejected ==
    \A u \in DOMAIN store :
        ( /\ HasRecords(u) /\ ~HasMarker(store[u]) /\ store[u].type = DOCUMENT
          /\ ParentKnown(u)
          /\ store[u].formatVersion \notin {1, 2} )
        => /\ validation # Idle =>
                validation.status = "done" /\ validation.errors[u] = "compatibility"
           /\ files # Idle => files.status = "raised"
           /\ StructExported(u) => exportRes.status = "raised"

\* C14: for a UUID without marker whose metadata type is neither Document nor
\* Folder, whatever its parent reference, the Validator has recorded an
\* assertion error and has gone on to the end of the store.
C14_UnknownTypeIsAssertionError ==
    \A u \in DOMAIN store :
        ( /\ "metadata" \in store[u].files /\ ~HasMarker(store[u])
          /\ "type" \in store[u].metaKeys /\ ~valid_type(store[u].type) )
        => (validation # Idle =>
                validation.status = "done" /\ validation.errors[u] = "assert")

----------------------------------------------------------------------------
(* The tree scan. *)

\* C15: for a Folder that has any artifact besides its metadata and content
\* records, the tree scan fails its assertion (list_files of main raises) and
\* the Validator, once it has run, has recorded an assertion error for it.
C15_FolderHasNoOtherArtifact ==
    \A u \in DOMAIN store :
        ( /\ HasRecords(u) /\ ~HasMarker(store[u]) /\ store[u].type = FOLDER
          /\ store[u].files \ {"metadata", "content"} # {} )
        => /\ files # Idle => files.status = "raised"
           /\ validation.status = "done" => validation.errors[u] = "assert"

\* C16: the map list_files returns has no key for a UUID with a tombstone or
\* dirty marker, and each of its values is a Folder or a Document entity.
C16_NoMarkedUuidInMap ==
    files.status = "ok"
        => \A u \in DOMAIN files.map :
              /\ ~HasMarker(store[u])
              /\ files.map[u].cls \in {"Folder", "Notebook"}

----------------------------------------------------------------------------
(* The output page of a Present page. *)

\* the frame {x=10, y=5, w=100, h=200} with a background of 80 by 150
ExampleFrame == Frame(10, 5, 100, 200, TRUE, 80, 150)

\* C17: the output page allocated for a Present page is as wide as the wider
\* and as high as the higher of the rendered page and the background (0 by 0
\* when absent); for the example frame it is 100 by 200.
C17_OutputPageIsMaxOfBoxes ==
    placement # Idle =>
        /\ placement.width >= frame.w_svg /\ placement.width >= BgWidth(frame)
        /\ placement.width \in {frame.w_svg, BgWidth(frame)}
        /\ placement.height >= frame.h_svg /\ placement.height >= BgHeight(frame)
        /\ placement.height \in {frame.h_svg, BgHeight(frame)}
        /\ frame = ExampleFrame => placement.width = 100 /\ placement.height = 200

C17_Witness ==
    /\ placement # Idle
    /\ frame.hasBg /\ frame.wPage > frame.w_svg /\ frame.hPage < frame.h_svg

\* C18 as stated: on each axis the smaller of the rendered page and the
\* background is at half the size difference, inside the output page, the
\* other box at 0; both at 0 when the sizes are equal.
C18_SmallerBoxCentred ==
    (placement # Idle /\ frame.hasBg) =>
        /\ 2 * placement.x_bg = placement.width - BgWidth(frame)
        /\ 2 * placement.x_svg = placement.width - frame.w_svg
        /\ 2 * placement.y_bg = placement.height - BgHeight(frame)
        /\ 2 * placement.y_svg = placement.height - frame.h_svg

\* C18 amended: on each axis the larger box is at offset 0, and both are when
\* the sizes are equal; across, the smaller box is at half the size difference
\* shifted by the distance (w_svg/2 + x_shift) of the frame's origin from the
\* middle of the rendered page, to the left for the background and to the
\* right for the rendered page, so that it is centred exactly when x_shift is
\* -w_svg/2; upwards, the smaller box is at the whole size difference, plus
\* y_shift for the background and minus y_shift for the rendered page.  For
\* the example frame the background is at (-50, 55).
C18_SmallerBoxPlacedByShift ==
    placement # Idle =>
        LET w_bg == BgWidth(frame)
            h_bg == BgHeight(frame)
            off == frame.w_svg + 2 * frame.x_shift
        IN  /\ frame.w_svg >= w_bg => placement.x_svg = 0
            /\ frame.w_svg <= w_bg => placement.x_bg = 0
            /\ frame.h_svg >= h_bg => placement.y_svg = 0
            /\ frame.h_svg <= h_bg => placement.y_bg = 0
            /\ frame.w_svg > w_bg => 2 * placement.x_bg = (frame.w_svg - w_bg) - off
            /\ frame.w_svg < w_bg => 2 * placement.x_svg = (w_bg - frame.w_svg) + off
            /\ frame.h_svg > h_bg => placement.y_bg = (frame.h_svg - h_bg) + frame.y_shift
            /\ frame.h_svg < h_bg => placement.y_svg = (h_bg - frame.h_svg) - frame.y_shift
            /\ frame.w_svg > w_bg =>
                  (2 * placement.x_bg = frame.w_svg - w_bg <=> 2 * frame.x_shift = -frame.w_svg)
            /\ frame = ExampleFrame => placement.x_bg = -50 /\ placement.y_bg = 55

C18_Witness ==
    /\ placement # Idle
    /\ frame = ExampleFrame
    /\ placement.x_bg < 0

----------------------------------------------------------------------------
(* The layers of an output page. *)

\* the layers of a page from the lowest to the topmost, from its merges in
\* the order they were made: a merge goes on top, but for "bg_under"
RECURSIVE Stack(_)
Stack(layers) ==
    IF layers = <<>> THEN <<>>
    ELSE LET below == Stack(SubSeq(layers, 1, Len(layers) - 1))
             last == layers[Len(layers)]
         IN  IF last = "bg_under" THEN <<"bg">> \o below ELSE Append(below, last)

IsBgLayer(l) == l \in {"bg", "bg_under"}

\* the pages of the written output that hold both a background and the
\* rendered content
CompositedPages ==
    IF exportRes # Idle /\ exportRes.status = "ok" /\ exportRes.file.how = "write"
    THEN { k \in 1..Len(exportRes.file.pages) :
             LET l == exportRes.file.pages[k].layers IN
             /\ \E i \in 1..Len(l) : IsBgLayer(l[i])
             /\ \E i \in 1..Len(l) : l[i] = "svg" }
    ELSE {}

\* C19 as stated: on every output page that holds a background and the
\* rendered content, the background was merged before the content and the
\* content is the last layer merged.
C19_BackgroundMergedFirst ==
    \A k \in CompositedPages :
        LET l == exportRes.file.pages[k].layers IN
        /\ l[Len(l)] = "svg"
        /\ \A i, j \in 1..Len(l) : (IsBgLayer(l[i]) /\ l[j] = "svg") => i < j

\* C19 amended: on every output page that holds a background and the rendered
\* content, the content is above the background, whatever the order of the
\* merges.
C19_ContentAboveBackground ==
    \A k \in CompositedPages :
        LET z == Stack(exportRes.file.pages[k].layers) IN
        \A i, j \in 1..Len(z) : (z[i] = "bg" /\ z[j] = "svg") => i < j

C19_Witness ==
    /\ CompositedPages # {}
    /\ exportRes.impl = "old"

----------------------------------------------------------------------------
(* The output of a Document without background. *)

\* the page descriptors the slots of the export that ran are numbered by:
\* rmtree/struct numbers every descriptor, the others those not deleted
SlotPages == IF exportRes.impl = "struct" THEN store[ent].pages ELSE DocPages(ent)

\* slot k holds a Present page and no failure was logged for it
Converted(k) ==
    /\ SlotPages[k].blob # "none"
    /\ \A i \in 1..Len(exportRes.log) :
          ~(exportRes.log[i].level = "warning" /\ exportRes.log[i].slot = k)

\* C20: the output of a Document without background file is one page per
\* Present page whose conversion succeeded, each holding the rendered page
\* alone, in the order of the descriptors; Empty pages add nothing.
C20_NoBackgroundOutput ==
    (ExportDone /\ ~exists(store, ent, "pdf")) =>
        LET out == exportRes.file.pages IN
        /\ Len(out) = Cardinality({k \in 1..Len(SlotPages) : Converted(k)})
        /\ \A j \in 1..Len(out) :
              /\ out[j].slot \in 1..Len(SlotPages)
              /\ Converted(out[j].slot)
              /\ out[j].layers = <<"svg">>
        /\ \A i, j \in 1..Len(out) : i < j => out[i].slot < out[j].slot

----------------------------------------------------------------------------
(* What the Validator records. *)

\* the only artifacts of u are markers
OnlyMarkers(u) == store[u].files # {} /\ store[u].files \subseteq {"tombstone", "dirty"}

\* C21: for a UUID whose only artifact is a tombstone or a dirty marker the
\* Validator records no error, and a store of valid entities and such UUIDs
\* returns (0, 0).
C21_CleanMarkerRecordsNoError ==
    (validation.status = "done" /\ \E u \in DOMAIN store : OnlyMarkers(u))
        => /\ \A u \in DOMAIN store : OnlyMarkers(u) => validation.errors[u] = "none"
           /\ (\A u \in DOMAIN store :
                  OnlyMarkers(u) \/ store[u] = PlainFolder(<<"a">>, ""))
                => validation.compatibility = 0 /\ validation.assertion = 0

----------------------------------------------------------------------------
(* The parent reference the Validator accepts. *)

\* the UUIDs of the map the tree scan builds: no marker, both records
MapEntities == {v \in DOMAIN store : HasRecords(v) /\ ~HasMarker(store[v])}

\* the loop of the Validator went past the metadata check of u
PassesMetadataCheck(u) ==
    /\ HasRecords(u) /\ ~HasMarker(store[u])
    /\ metadata_test_assertion(store[u], DOMAIN store) = "True"

\* C22: once the Validator has run, the parent reference of every entity that
\* passed its metadata check is "", "trash" or the UUID of an entity of the
\* map of the tree scan; and get_path on a store that validated with zero
\* assertion errors never looks up a UUID that is missing from the map.
C22_CheckedParentInMap ==
    /\ validation # Idle =>
          \A u \in DOMAIN store :
              PassesMetadataCheck(u) => store[u].parent \in {"", "trash"} \cup MapEntities
    /\ (validation.status = "done" /\ validation.assertion = 0 /\ ent # "")
          => pathStruct.status # "KeyError"

----------------------------------------------------------------------------
(* The structure check of the content record. *)

\* the fields schema v requires of a content record
RequiredFields(v) ==
    {"formatVersion", "pageCount"} \cup (IF v = 2 THEN {"cPages", "cPages.pages"} ELSE {"pages"})

\* C23: once the Validator has run on a Document of schema 1 or 2 that passed
\* the metadata check, ContentFile.test_assertion has returned a boolean for
\* its content record without raising: true exactly when every field the
\* schema requires is present, and when one is missing (formatVersion
\* included) the Validator has recorded an assertion error for the Document.
C23_StructureCheckReturnsBoolean ==
    validation # Idle =>
        \A u \in DOMAIN store :
            (PassesMetadataCheck(u) /\ store[u].type = DOCUMENT) =>
                LET r == ContentFile_test_assertion(store[u])
                    complete == RequiredFields(store[u].formatVersion) \subseteq store[u].contentKeys
                IN  /\ r \in {"True", "False"}
                    /\ r = "True" <=> complete
                    /\ ~complete => validation.status = "done" /\ validation.errors[u] = "assert"

----------------------------------------------------------------------------
(* The pages the export of rmtree/struct goes through. *)

\* the export of rmtree/struct has run its page loop on the Document
StructLoopRan ==
    /\ exportRes # Idle /\ exportRes.impl = "struct"
    /\ ~AllPagesEmptyStruct(store[ent])

\* the descriptors of the pages the loop was given, in the order of the loop
RECURSIVE DescriptorsAt(_, _)
DescriptorsAt(ds, slots) ==
    IF slots = <<>> THEN <<>>
    ELSE (IF Head(slots) \in 1..Len(ds) THEN <<ds[Head(slots)]>> ELSE <<>>)
         \o DescriptorsAt(ds, Tail(slots))

\* C24: the pages the page loop of Notebook.export goes through (those
\* iterate_pages yields) are the descriptors that are not deleted, in declared
\* order, the sequence of get_pages: the loop gets through every one of them
\* under schema 1 as under schema 2, and no output page is the page of a
\* deleted descriptor.
C24_IteratedPagesAreGetPages ==
    StructLoopRan =>
        LET ds == store[ent].pages
            out == exportRes.file.pages
        IN  /\ exportRes.exc # "TypeError"
            /\ DescriptorsAt(ds, exportRes.slots) = get_pages(ds)
            /\ \A j \in 1..Len(out) :
                  out[j].slot \in 1..Len(ds) => ~ds[out[j].slot].deleted

----------------------------------------------------------------------------
(* The compatibility count. *)

\* C25: once the Validator has run, a Document with a Present page whose
\* version is not V6 is counted among the compatibility errors, whatever else
\* the Validator found for the same UUID.
C25_IncompatibleDocumentCounted ==
    validation # Idle =>
        \A u \in DOMAIN store :
            ( /\ HasRecords(u) /\ ~HasMarker(store[u]) /\ store[u].type = DOCUMENT
              /\ HasIncompatiblePage(store[u]) )
            => /\ validation.status = "done"
               /\ validation.errors[u] = "compatibility"
               /\ validation.compatibility >= 1

----------------------------------------------------------------------------
(* A redirect past the end of the background. *)

\* the descriptor of slot k redirects to a page the background does not have
RedirectOutOfRange(k) ==
    SlotPages[k].redir # NoRedir /\ SlotPages[k].redir >= store[ent].pdfPages

\* C26: when a schema 2 Document with a background file has a page whose
\* redirect index is out of the range of the background, the export does not
\* fail on the index: a page so redirected is output without background, and
\* every other Present page whose conversion succeeded is output.
C26_OutOfRangeRedirectIsNoBackground ==
    ( /\ exportRes # Idle
      /\ store[ent].formatVersion = 2 /\ exists(store, ent, "pdf")
      /\ \E k \in 1..Len(SlotPages) : RedirectOutOfRange(k) )
    => LET out == exportRes.file.pages IN
       /\ exportRes.exc # "IndexError"
       /\ \A j \in 1..Len(out) :
             (out[j].slot \in 1..Len(SlotPages) /\ RedirectOutOfRange(out[j].slot))
                => out[j].bg = NoBg
       /\ \A k \in 1..Len(SlotPages) :
             (Converted(k) /\ ~RedirectOutOfRange(k))
                => \E j \in 1..Len(out) : out[j].slot = k

=============================================================================
